---------------------------- MODULE Spec2Model ----------------------------
(***************************************************************************)
(* A model of the gin Hacker News clone (src/main.go): the schema          *)
(* initializer createTable/createTables run by every server process at     *)
(* start, the PostgreSQL store holding the posts and comments tables as     *)
(* declared by the two CREATE TABLE statements, and the four request        *)
(* handlers registered in main.                                            *)
(*                                                                         *)
(* Text values (form fields, path parameters, links) are sequences of      *)
(* one-character strings, so that url.Parse, the integer input of the      *)
(* store and the VARCHAR length limit are computed on the characters.      *)
(***************************************************************************)
EXTENDS Integers, Sequences, FiniteSets, TLC

VARIABLES
    tables,     \* names of the tables present in schema 'public'
    posts,      \* rows of table posts
    comments,   \* rows of table comments
    postSeq,    \* last value drawn from the SERIAL sequence of posts.id
    commentSeq, \* last value drawn from the SERIAL sequence of comments.id
    now,        \* the store's clock, read by CURRENT_TIMESTAMP
    pc,         \* per server process: its position in main/createTables
    listing,    \* the GET / request in flight between its statements, if any
    resp,       \* the last response written by a handler
    nreq        \* number of requests answered so far

vars == <<tables, posts, comments, postSeq, commentSeq, now, pc, listing, resp, nreq>>

store == <<posts, comments, postSeq, commentSeq>>

-----------------------------------------------------------------------------
(* Bounds of the model.                                                    *)

MaxReq == 3     \* requests accepted in one behaviour
MaxTime == 1    \* ticks of the store's clock

Procs == {"p1", "p2"}   \* server processes started against the one database

-----------------------------------------------------------------------------
(* Text.                                                                   *)

Letters == {"a", "b", "c", "d", "e", "f", "g", "h", "i", "j", "k", "l", "m",
            "n", "o", "p", "q", "r", "s", "t", "u", "v", "w", "x", "y", "z",
            "A", "B", "C", "D", "E", "F", "G", "H", "I", "J", "K", "L", "M",
            "N", "O", "P", "Q", "R", "S", "T", "U", "V", "W", "X", "Y", "Z"}

Digits == {"0", "1", "2", "3", "4", "5", "6", "7", "8", "9"}

DigitVal(c) ==
    CASE c = "0" -> 0 [] c = "1" -> 1 [] c = "2" -> 2 [] c = "3" -> 3
      [] c = "4" -> 4 [] c = "5" -> 5 [] c = "6" -> 6 [] c = "7" -> 7
      [] c = "8" -> 8 [] c = "9" -> 9

\* strings.Index(s, c) for a one-character c, 1-based; 0 when absent
Index(s, c) ==
    IF \E i \in 1..Len(s) : s[i] = c
    THEN CHOOSE i \in 1..Len(s) : s[i] = c /\ \A j \in 1..(i - 1) : s[j] # c
    ELSE 0

\* strings.LastIndex(s, c), 1-based; 0 when absent
LastIndex(s, c) ==
    IF \E i \in 1..Len(s) : s[i] = c
    THEN CHOOSE i \in 1..Len(s) : s[i] = c /\ \A j \in (i + 1)..Len(s) : s[j] # c
    ELSE 0

HasPrefix(s, p) == Len(s) >= Len(p) /\ SubSeq(s, 1, Len(p)) = p

\* the part of s before the first c (all of s when c is absent): strings.Cut
Before(s, c) == IF Index(s, c) = 0 THEN s ELSE SubSeq(s, 1, Index(s, c) - 1)


-----------------------------------------------------------------------------
(* net/url.Parse, as called by the GET / handler on a post's link.  Only   *)
(* what decides the error and the Host field is computed.  Percent escapes *)
(* and control bytes are outside the characters the model's links use.     *)

NoURL == [ok |-> FALSE, Host |-> <<>>]      \* Parse returned (nil, err)
URL(host) == [ok |-> TRUE, Host |-> host]   \* Parse returned (u, nil)

\* getScheme: [err, scheme, rest], scanning rawURL from position i
RECURSIVE getSchemeFrom(_, _)
getSchemeFrom(rawURL, i) ==
    IF i > Len(rawURL)
    THEN [err |-> FALSE, scheme |-> <<>>, rest |-> rawURL]
    ELSE LET c == rawURL[i] IN
         IF c \in Letters
         THEN getSchemeFrom(rawURL, i + 1)
         ELSE IF c \in Digits \cup {"+", "-", "."}
         THEN IF i = 1
              THEN [err |-> FALSE, scheme |-> <<>>, rest |-> rawURL]
              ELSE getSchemeFrom(rawURL, i + 1)
         ELSE IF c = ":"
         THEN IF i = 1
              THEN [err |-> TRUE, scheme |-> <<>>, rest |-> <<>>]   \* missing protocol scheme
              ELSE [err |-> FALSE, scheme |-> SubSeq(rawURL, 1, i - 1),
                    rest |-> SubSeq(rawURL, i + 1, Len(rawURL))]
         ELSE [err |-> FALSE, scheme |-> <<>>, rest |-> rawURL]

getScheme(rawURL) == getSchemeFrom(rawURL, 1)

\* validOptionalPort: "" or ":" followed by digits only
validOptionalPort(port) ==
    \/ port = <<>>
    \/ /\ port[1] = ":"
       /\ \A i \in 2..Len(port) : port[i] \in Digits

\* the bytes unescape(host, encodeHost) lets through unescaped
HostCharOK(c) ==
    c \in Letters \cup Digits \cup
          {"-", "_", ".", "~", "!", "$", "&", "'", "(", ")", "*", "+", ",",
           ";", "=", ":", "[", "]", "<", ">"}

\* validUserinfo
UserinfoCharOK(c) ==
    c \in Letters \cup Digits \cup
          {"-", ".", "_", ":", "~", "!", "$", "&", "'", "(", ")", "*", "+",
           ",", ";", "=", "%", "@"}

\* parseHost for a host that is not an IP literal in brackets
parseHost(host) ==
    LET i == LastIndex(host, ":") IN
    IF i # 0 /\ ~validOptionalPort(SubSeq(host, i, Len(host)))
    THEN NoURL                                 \* invalid port after host
    ELSE IF \E k \in 1..Len(host) : ~HostCharOK(host[k])
    THEN NoURL                                 \* invalid character in host name
    ELSE URL(host)

\* parseAuthority: [user@]host
parseAuthority(authority) ==
    LET i == LastIndex(authority, "@") IN
    IF i = 0
    THEN parseHost(authority)
    ELSE IF \E k \in 1..(i - 1) : ~UserinfoCharOK(authority[k])
    THEN NoURL                                 \* invalid userinfo
    ELSE parseHost(SubSeq(authority, i + 1, Len(authority)))

\* parse(rawURL, viaRequest = false)
parse(rawURL) ==
    IF rawURL = <<"*">> THEN URL(<<>>)
    ELSE
    LET sch == getScheme(rawURL) IN
    IF sch.err THEN NoURL
    ELSE
    LET rest == Before(sch.rest, "?") IN
    IF ~HasPrefix(rest, <<"/">>) /\ sch.scheme # <<>>
    THEN URL(<<>>)                             \* rootless path: opaque
    ELSE IF ~HasPrefix(rest, <<"/">>) /\ Index(Before(rest, "/"), ":") # 0
    THEN NoURL                                 \* first path segment cannot contain colon
    ELSE IF /\ sch.scheme # <<>> \/ ~HasPrefix(rest, <<"/", "/", "/">>)
            /\ HasPrefix(rest, <<"/", "/">>)
    THEN parseAuthority(Before(SubSeq(rest, 3, Len(rest)), "/"))
    ELSE URL(<<>>)

\* url.Parse: cut off the fragment, then parse
Parse(rawURL) == parse(Before(rawURL, "#"))

-----------------------------------------------------------------------------
(* The store: the schema of createTables and what PostgreSQL does with the *)
(* handlers' statements.                                                   *)

VarcharMax == 255   \* title VARCHAR(255), link VARCHAR(255)

\* the two CREATE TABLE statements of createTables, by what they declare
postsTableQuery ==
    [table |-> "posts", varchar |-> {"title", "link"}, references |-> {}]
commentsTableQuery ==
    [table |-> "comments", varchar |-> {}, references |-> {"posts"}]

\* the calls createTables makes, in order: createTable(db, name, query)
TableCalls ==
    << [name |-> "posts", query |-> postsTableQuery],
       [name |-> "comments", query |-> commentsTableQuery] >>

\* SELECT EXISTS (SELECT FROM information_schema.tables WHERE table_name = $1)
TableExists(name) == \E t \in tables : t.table = name

TableDef(name) == CHOOSE t \in tables : t.table = name

\* integer input of the store for a text parameter bound to an INTEGER
\* column: digits only (signs, blanks and 32-bit overflow are outside the
\* path parameters of the model)
RECURSIVE DigitsValue(_)
DigitsValue(s) ==
    IF s = <<>> THEN 0
    ELSE 10 * DigitsValue(SubSeq(s, 1, Len(s) - 1)) + DigitVal(s[Len(s)])

ParseInt4(s) ==
    IF s # <<>> /\ \A i \in 1..Len(s) : s[i] \in Digits
    THEN [ok |-> TRUE, val |-> DigitsValue(s)]
    ELSE [ok |-> FALSE, val |-> 0]     \* invalid input syntax for type integer

\* a value fits a column the table declares VARCHAR(255)
Fits(table, column, value) ==
    column \in TableDef(table).varchar => Len(value) <= VarcharMax

\* INSERT INTO posts (title, content, link, created_at)
\*   VALUES ($1, $2, $3, CURRENT_TIMESTAMP)
PostInsertOK(title, content, link) ==
    Fits("posts", "title", title) /\ Fits("posts", "link", link)

NewPost(title, content, link) ==
    [id |-> postSeq + 1, title |-> title, link |-> link, content |-> content,
     created_at |-> now]

\* mutant: the comments table declared without its FOREIGN KEY
NoForeignKey(post_id) == TRUE

\* the foreign key of comments: post_id must be the id of a row of posts
ForeignKeyOK(post_id) ==
    "posts" \in TableDef("comments").references =>
        \E p \in posts : p.id = post_id

\* mutant: the error of the comment INSERT is dropped
CommentInsertErrorDropped(id) == TRUE

\* INSERT INTO comments (content, post_id, created_at)
\*   VALUES ($1, $2, CURRENT_TIMESTAMP)
CommentInsertOK(id) ==
    ParseInt4(id).ok /\ ForeignKeyOK(ParseInt4(id).val)

NewComment(content, id) ==
    [id |-> commentSeq + 1, content |-> content, post_id |-> ParseInt4(id).val,
     created_at |-> now]

\* the results a SELECT ... ORDER BY created_at DESC may return for the rows
\* S: every row once, later rows first, rows of equal time in any order
OrderedDesc(S) ==
    LET n == Cardinality(S) IN
    { s \in [1..n -> S] :
        /\ \A i, j \in 1..n : i # j => s[i] # s[j]
        /\ \A i \in 1..(n - 1) : s[i].created_at >= s[i + 1].created_at }

\* SELECT COUNT(*) FROM comments WHERE post_id = $1
CommentCount(post_id) == Cardinality({c \in comments : c.post_id = post_id})

-----------------------------------------------------------------------------
(* Inputs of the requests.                                                 *)

ExampleLink ==
    <<"h", "t", "t", "p", ":", "/", "/", "e", "x", "a", "m", "p", "l", "e",
      ".", "c", "o", "m", "/", "x">>
ExampleHost == <<"e", "x", "a", "m", "p", "l", "e", ".", "c", "o", "m">>

NoSchemeLink == <<":", "f", "o", "o">>     \* ":foo", no protocol scheme
LongText == [i \in 1..(VarcharMax + 1) |-> "a"]

\* the forms posted to /new: a post with a link, one with neither title nor
\* link, one whose link url.Parse rejects, one whose title exceeds the column
PostForms ==
    { [title |-> <<"T">>, content |-> <<"C">>, link |-> ExampleLink],
      [title |-> <<>>, content |-> <<"D">>, link |-> <<>>],
      [title |-> <<"T">>, content |-> <<"C">>, link |-> NoSchemeLink],
      [title |-> LongText, content |-> <<"C">>, link |-> <<>>] }
CommentContents == {<<"c">>}

\* path parameters :id: two decimal ids and a parameter that is no number
IdParams == {<<"1">>, <<"2">>, <<"a", "b", "c">>}

\* what template.ParseFiles and tmpl.Execute can do with the template files
RenderOutcomes == {"ok", "parseErr", "execErr"}

-----------------------------------------------------------------------------
(* Responses.                                                              *)

ListRoute == "GET /"
NewRoute == "POST /new"
DetailRoute == "GET /post/:id"
CommentRoute == "POST /post/:id/comment"

NoListing == [active |-> FALSE, n |-> 0, rows |-> <<>>, acc |-> <<>>, quiet |-> TRUE]

NoResp ==
    [n |-> 0, route |-> "", id |-> <<>>, status |-> 0, kind |-> "", error |-> "",
     body |-> <<>>, location |-> <<>>, quiet |-> TRUE]

\* c.JSON(status, gin.H{"error": msg})
JSONError(n, route, id, status, msg) ==
    [n |-> n, route |-> route, id |-> id, status |-> status, kind |-> "json",
     error |-> msg, body |-> <<>>, location |-> <<>>, quiet |-> TRUE]

\* c.Redirect(http.StatusFound, location)
Redirect(n, route, id, location) ==
    [n |-> n, route |-> route, id |-> id, status |-> 302, kind |-> "redirect",
     error |-> "", body |-> <<>>, location |-> location, quiet |-> TRUE]

\* gin's Recovery middleware (gin.Default) after a handler panicked: 500, no body
Recovered(n, route, id) ==
    [n |-> n, route |-> route, id |-> id, status |-> 500, kind |-> "empty",
     error |-> "panic", body |-> <<>>, location |-> <<>>, quiet |-> TRUE]

\* renderTemplate(c, tmplPath, data) with outcome r of the template engine
renderTemplate(n, route, id, data, r) ==
    IF r = "ok"
    THEN [n |-> n, route |-> route, id |-> id, status |-> 200, kind |-> "html",
          error |-> "", body |-> data, location |-> <<>>, quiet |-> TRUE]
    ELSE JSONError(n, route, id, 500, "template")

\* mutant: sql.ErrNoRows is not told apart from the other errors
NoRowsNotDistinguished(noRows) == 500

\* the status the detail handler answers a failed post query with
PostQueryErrorStatus(noRows) == IF noRows THEN 404 ELSE 500

PostQueryErrorMessage(noRows) == IF noRows THEN "Post not found" ELSE "store"

\* the Post and Comment values handed to the templates
PostView(row, host, count, cs) ==
    [ID |-> row.id, Title |-> row.title, Link |-> row.link, Host |-> host,
     Content |-> row.content, CreatedAt |-> row.created_at,
     CommentCount |-> count, Comments |-> cs]

CommentView(row, postID) ==
    [ID |-> row.id, Content |-> row.content, PostID |-> postID,
     CreatedAt |-> row.created_at]

-----------------------------------------------------------------------------
(* Process start: main opens the handle and runs createTables; any error   *)
(* is fatal (log.Fatal), success leads to serving requests.                *)

Idle == [at |-> "start", call |-> 0]
Serving == [at |-> "serving", call |-> 0]
Fatal == [at |-> "fatal", call |-> 0]

Init ==
    /\ tables = {}
    /\ posts = {}
    /\ comments = {}
    /\ postSeq = 0
    /\ commentSeq = 0
    /\ now = 0
    /\ pc = [p \in Procs |-> Idle]
    /\ listing = NoListing
    /\ resp = NoResp
    /\ nreq = 0

\* where createTables goes after call k returned nil
AfterCall(k) ==
    IF k < Len(TableCalls) THEN [at |-> "check", call |-> k + 1] ELSE Serving

\* mutant: the CREATE TABLE statement runs whatever the existence query said
AlwaysCreate(exists) == TRUE

\* createTable: "if !exists", the decision to run the CREATE TABLE statement
MustCreate(exists) == ~exists

\* main up to the call of createTables
Start(p) ==
    /\ pc[p] = Idle
    /\ pc' = [pc EXCEPT ![p] = [at |-> "check", call |-> 1]]
    /\ UNCHANGED <<tables, store, now, listing, resp, nreq>>

\* createTable: the existence query and the branch on its result
CheckTable(p) ==
    /\ pc[p].at = "check"
    /\ LET k == pc[p].call IN
       pc' = [pc EXCEPT ![p] =
                IF MustCreate(TableExists(TableCalls[k].name))
                THEN [at |-> "create", call |-> k]
                ELSE AfterCall(k)]
    /\ UNCHANGED <<tables, store, now, listing, resp, nreq>>

\* createTable: db.Exec(createQuery); the store refuses to create a table
\* that exists or that references a table that does not
ExecCreate(p) ==
    /\ pc[p].at = "create"
    /\ LET k == pc[p].call
           q == TableCalls[k].query
       IN IF ~TableExists(q.table) /\ \A r \in q.references : TableExists(r)
          THEN /\ tables' = tables \cup {q}
               /\ pc' = [pc EXCEPT ![p] = AfterCall(k)]
          ELSE /\ tables' = tables
               /\ pc' = [pc EXCEPT ![p] = Fatal]
    /\ UNCHANGED <<store, now, listing, resp, nreq>>

\* the store's clock advances
Tick ==
    /\ now < MaxTime
    /\ now' = now + 1
    /\ UNCHANGED <<tables, store, pc, listing, resp, nreq>>

-----------------------------------------------------------------------------
(* The request handlers.  A request is served by a process that reached    *)
(* r.Run.  The handlers of POST /new, POST /post/:id/comment and           *)
(* GET /post/:id are one step each: the first two are one statement, and   *)
(* the rows the third reads with its first statement never change.  GET /  *)
(* runs one statement per step, other requests interleaving.               *)

Accepting == nreq < MaxReq /\ \E p \in Procs : pc[p] = Serving

\* a committed INSERT is seen by the GET / in flight
Disturbed == IF listing.active THEN [listing EXCEPT !.quiet = FALSE] ELSE listing

\* mutant: the statement replaces the rows of the table by the new row
Overwritten(rows, row) == {row}

\* the rows of a table after INSERT of one row
Inserted(rows, row) == rows \cup {row}

\* POST /new
PostNew(title, content, link) ==
    /\ Accepting
    /\ nreq' = nreq + 1
    /\ postSeq' = postSeq + 1
    /\ IF PostInsertOK(title, content, link)
       THEN /\ posts' = Inserted(posts, NewPost(title, content, link))
            /\ listing' = Disturbed
            /\ resp' = Redirect(nreq + 1, NewRoute, <<>>, <<"/">>)
       ELSE /\ posts' = posts
            /\ listing' = listing
            /\ resp' = JSONError(nreq + 1, NewRoute, <<>>, 500, "store")
    /\ UNCHANGED <<tables, comments, commentSeq, now, pc>>

\* POST /post/:id/comment
PostComment(id, content) ==
    /\ Accepting
    /\ nreq' = nreq + 1
    /\ commentSeq' = IF ParseInt4(id).ok THEN commentSeq + 1 ELSE commentSeq
    /\ IF CommentInsertOK(id)
       THEN /\ comments' = Inserted(comments, NewComment(content, id))
            /\ listing' = Disturbed
            /\ resp' = Redirect(nreq + 1, CommentRoute, id,
                                <<"/", "p", "o", "s", "t", "/">> \o id)
       ELSE /\ comments' = comments
            /\ listing' = listing
            /\ resp' = JSONError(nreq + 1, CommentRoute, id, 500, "store")
    /\ UNCHANGED <<tables, posts, postSeq, now, pc>>

\* GET /post/:id
GetPost(id, r) ==
    /\ Accepting
    /\ nreq' = nreq + 1
    /\ LET q == ParseInt4(id)
           found == {p \in posts : q.ok /\ p.id = q.val}
       IN IF found = {}
          THEN resp' = JSONError(nreq + 1, DetailRoute, id,
                                 PostQueryErrorStatus(q.ok),
                                 PostQueryErrorMessage(q.ok))
          ELSE \E cs \in OrderedDesc({c \in comments : c.post_id = q.val}) :
                 LET row == CHOOSE p \in found : TRUE
                     views == [i \in 1..Len(cs) |-> CommentView(cs[i], row.id)]
                 IN resp' = renderTemplate(nreq + 1, DetailRoute, id,
                                           PostView(row, <<>>, 0, views), r)
    /\ UNCHANGED <<tables, store, now, pc, listing>>

\* GET /: the query for the posts
ListQuery ==
    /\ Accepting
    /\ ~listing.active
    /\ nreq' = nreq + 1
    /\ \E rows \in OrderedDesc(posts) :
         listing' = [active |-> TRUE, n |-> nreq + 1, rows |-> rows,
                     acc |-> <<>>, quiet |-> TRUE]
    /\ UNCHANGED <<tables, store, now, pc, resp>>

\* GET /: one turn of the loop over the rows: url.Parse of the link, u.Host,
\* then the count query.  With a link url.Parse rejects, u is nil and
\* u.Host panics.
ListRow ==
    /\ listing.active
    /\ Len(listing.acc) < Len(listing.rows)
    /\ LET row == listing.rows[Len(listing.acc) + 1]
           u == Parse(row.link)
       IN IF u.ok
          THEN /\ listing' = [listing EXCEPT !.acc =
                   Append(@, PostView(row, u.Host, CommentCount(row.id), <<>>))]
               /\ resp' = resp
          ELSE /\ listing' = NoListing
               /\ resp' = [Recovered(listing.n, ListRoute, <<>>)
                             EXCEPT !.quiet = listing.quiet]
    /\ UNCHANGED <<tables, store, now, pc, nreq>>

\* GET /: the rows are exhausted, the page is rendered
ListRender(r) ==
    /\ listing.active
    /\ Len(listing.acc) = Len(listing.rows)
    /\ resp' = [renderTemplate(listing.n, ListRoute, <<>>, listing.acc, r)
                  EXCEPT !.quiet = listing.quiet]
    /\ listing' = NoListing
    /\ UNCHANGED <<tables, store, now, pc, nreq>>

Request ==
    \/ \E f \in PostForms : PostNew(f.title, f.content, f.link)
    \/ \E id \in IdParams, c \in CommentContents : PostComment(id, c)
    \/ \E id \in IdParams, r \in RenderOutcomes : GetPost(id, r)
    \/ ListQuery
    \/ ListRow
    \/ \E r \in RenderOutcomes : ListRender(r)

Next ==
    \/ \E p \in Procs : Start(p)
    \/ \E p \in Procs : CheckTable(p)
    \/ \E p \in Procs : ExecCreate(p)
    \/ Tick
    \/ Request

Spec == Init /\ [][Next]_vars

\* process starts one after the other: a process enters createTables only
\* while no other process is inside it
StartAlone(p) ==
    /\ \A q \in Procs : pc[q].at \in {"start", "serving", "fatal"}
    /\ Start(p)

NextSeq ==
    \/ \E p \in Procs : StartAlone(p)
    \/ \E p \in Procs : CheckTable(p)
    \/ \E p \in Procs : ExecCreate(p)
    \/ Tick
    \/ Request

SpecSeq == Init /\ [][NextSeq]_vars

-----------------------------------------------------------------------------
(* Properties.                                                             *)

\* a step that writes a response
Responded == resp' # resp

\* the post rows whose id is the path parameter id
PostsWithId(id) == {p \in posts : ParseInt4(id).ok /\ p.id = ParseInt4(id).val}

\* C1: in every reachable state every stored comment's post_id is the id of
\* a stored post.
NoOrphanComment ==
    \A c \in comments : \E p \in posts : p.id = c.post_id

\* a comment is stored and a later comment request was refused
NoOrphanComment_Witness ==
    /\ comments # {}
    /\ resp.route = CommentRoute
    /\ resp.status = 500

\* C2: a comment request whose id names no post row is answered 500 with a
\* JSON error, not a redirect, and leaves the stored comments as they were.
CommentOnMissingPostFails ==
    [][ (Responded /\ resp'.route = CommentRoute /\ PostsWithId(resp'.id) = {})
          => /\ resp'.status = 500
             /\ resp'.kind = "json"
             /\ resp'.error # ""
             /\ comments' = comments ]_vars

\* a comment request for a numeric id no post has was refused while posts
\* and comments are stored
CommentOnMissingPostFails_Witness ==
    /\ resp.route = CommentRoute
    /\ resp.status = 500
    /\ ParseInt4(resp.id).ok
    /\ PostsWithId(resp.id) = {}
    /\ posts # {}
    /\ comments # {}

\* C3: a GET / answered with no write in flight lists every stored post p
\* with commentCount equal to the number of stored comments on p.
ListingCountsComments ==
    [][ (Responded /\ resp'.route = ListRoute /\ resp'.quiet
           /\ resp'.error # "template")
          => /\ resp'.status = 200
             /\ \A p \in posts :
                  \E i \in 1..Len(resp'.body) :
                     /\ resp'.body[i].ID = p.id
                     /\ resp'.body[i].CommentCount = CommentCount(p.id) ]_vars

\* the stored posts have pairwise distinct creation times
DistinctTimes ==
    \A p, q \in posts : p # q => p.created_at # q.created_at

\* C4: with pairwise distinct creation times, GET / returns every stored
\* post exactly once, later posts strictly first; with no post it returns
\* the empty list and no error.
ListingOrdered ==
    [][ (Responded /\ resp'.route = ListRoute /\ resp'.quiet
           /\ resp'.error # "template" /\ DistinctTimes)
          => /\ resp'.status = 200
             /\ Len(resp'.body) = Cardinality(posts)
             /\ \A p \in posts : \E i \in 1..Len(resp'.body) : resp'.body[i].ID = p.id
             /\ \A i \in 1..(Len(resp'.body) - 1) :
                  resp'.body[i].CreatedAt > resp'.body[i + 1].CreatedAt ]_vars

\* C5: a post created with title "T", link "http://example.com/x" and
\* content "C" is returned by GET /post/:id with the same title, link and
\* content and with Host "example.com".
RoundTripWithHost ==
    (/\ resp.route = DetailRoute
     /\ resp.kind = "html"
     /\ \E p \in PostsWithId(resp.id) :
          p.title = <<"T">> /\ p.link = ExampleLink /\ p.content = <<"C">>)
      => /\ resp.body.Title = <<"T">>
         /\ resp.body.Link = ExampleLink
         /\ resp.body.Content = <<"C">>
         /\ resp.body.Host = ExampleHost

\* C6, as claimed: GET /post/:id answers 404 "Post not found" whenever no
\* post row has the requested id, 200 whenever the post exists, and 500 only
\* when a store query fails for a reason other than 'no rows'.
DetailStatusAsClaimed ==
    [][ (Responded /\ resp'.route = DetailRoute)
          => /\ PostsWithId(resp'.id) = {}
                  => resp'.status = 404 /\ resp'.error = "Post not found"
             /\ PostsWithId(resp'.id) # {} => resp'.status = 200
             /\ resp'.status = 500 => ~ParseInt4(resp'.id).ok ]_vars

\* C6, amended: for an id the store reads as an integer and no post has,
\* the response is 404 "Post not found"; when the post exists the response
\* is 200, or 500 because the template failed; 500 is returned only when
\* the store rejects the query (the id is no integer) or the template fails.
DetailStatus ==
    [][ (Responded /\ resp'.route = DetailRoute)
          => /\ (ParseInt4(resp'.id).ok /\ PostsWithId(resp'.id) = {})
                  => /\ resp'.status = 404
                     /\ resp'.kind = "json"
                     /\ resp'.error = "Post not found"
             /\ PostsWithId(resp'.id) # {}
                  => \/ resp'.status = 200
                     \/ resp'.status = 500 /\ resp'.error = "template"
             /\ resp'.status = 500
                  => ~ParseInt4(resp'.id).ok \/ resp'.error = "template" ]_vars

\* posts are stored and a detail request for an id none of them has was
\* answered 404
DetailStatus_Witness ==
    /\ posts # {}
    /\ resp.route = DetailRoute
    /\ resp.status = 404
    /\ ParseInt4(resp.id).ok

\* C7: in a GET / whose query returned a post with an empty link or a link
\* that fails to parse, the request succeeds and that post is listed with
\* Host "".
BadLinkListedWithEmptyHost ==
    [][ (Responded /\ resp'.route = ListRoute /\ resp'.error # "template")
          => /\ resp'.status = 200
             /\ \A k \in 1..Len(listing.rows) :
                  (listing.rows[k].link = <<>> \/ ~Parse(listing.rows[k].link).ok)
                    => \E i \in 1..Len(resp'.body) :
                          /\ resp'.body[i].ID = listing.rows[k].id
                          /\ resp'.body[i].Host = <<>> ]_vars

\* C8: createTables run again after a run has returned: no run ends in an
\* error, and once a run has returned the tables and their definitions stay
\* as that run left them.
SchemaInitIdempotent ==
    /\ [](\A p \in Procs : pc[p] # Fatal)
    /\ [][ (\E p \in Procs : pc[p] = Serving) => tables' = tables ]_vars

\* both processes returned from createTables, one after the other
SchemaInitIdempotent_Witness ==
    /\ \A p \in Procs : pc[p] = Serving
    /\ tables = {postsTableQuery, commentsTableQuery}

\* C9: no step removes or changes a stored row; the GET routes leave the
\* store unchanged; a successful POST adds exactly one row to its own table
\* and leaves the other table unchanged.
AppendOnly ==
    [][ /\ posts \subseteq posts'
        /\ comments \subseteq comments'
        /\ (Responded /\ resp'.route \in {ListRoute, DetailRoute})
             => posts' = posts /\ comments' = comments
        /\ (listing'.active /\ listing' # listing /\ listing'.quiet = listing.quiet)
             => posts' = posts /\ comments' = comments
        /\ (Responded /\ resp'.route = NewRoute /\ resp'.status = 302)
             => /\ Cardinality(posts') = Cardinality(posts) + 1
                /\ comments' = comments
        /\ (Responded /\ resp'.route = CommentRoute /\ resp'.status = 302)
             => /\ Cardinality(comments') = Cardinality(comments) + 1
                /\ posts' = posts ]_vars

\* two posts and a comment are stored: the earlier rows outlived the later
\* inserts
AppendOnly_Witness ==
    /\ Cardinality(posts) >= 2
    /\ comments # {}
    /\ resp.status = 302

\* C10: with processes starting at the same time on an empty database, every
\* process completes createTables without error.
ConcurrentInitSafe ==
    \A p \in Procs : pc[p] # Fatal

=============================================================================
